---- MODULE Spec2Model ----
(***************************************************************************)
(* Model of pkg/executables/helm.go: the Helm wrapper that builds the      *)
(* argument list of every invocation of the external helm executable.      *)
(*                                                                         *)
(* A string of the program is a TLA+ string when it is only a token of an  *)
(* argument list, and a sequence of one-character strings when the code    *)
(* looks inside it (the output of "helm list -q").  An error is the        *)
(* sequence of the words of its message; the nil error is <<>>.            *)
(***************************************************************************)
EXTENDS Integers, Sequences, FiniteSets, TLC

VARIABLES h, constructedInsecure, insecureOptApplied, last, repeated, callers

vars == <<h, constructedInsecure, insecureOptApplied, last, repeated, callers>>

----------------------------------------------------------------------------
(* Bounds *)

\* longest option list given to NewHelm or to UpgradeChartWithValuesFile
MaxOpts == 1
\* longest text the external "list -q" invocation returns
MaxOut == 5
\* longest list of inline value overrides given to InstallChart
MaxValues == 1
\* callers sharing one instance in the concurrent specification
NCallers == 3

----------------------------------------------------------------------------
(* Program constants *)

insecureSkipVerifyFlag == "--insecure-skip-tls-verify"

----------------------------------------------------------------------------
(* Input domains *)

Registries == {"oci://public.ecr.aws", "oci://other.io"}
Paths == {"/eks-anywhere/chart"}
URIs == {r \o p : r \in Registries, p \in Paths}
Versions == {"1.0"}
Namespaces == {"", "ns"}
KubeConfigs == {"", "kc.kubeconfig"}
KubeConfigPaths == {"kc.kubeconfig"}
ValueFilePaths == {"values.yaml"}
ValueFiles == {"", "values.yaml"}
SetValues == {"k=v"}
Charts == {"r"}
Usernames == {"admin", "user"}
Passwords == {"admin", "s3cret"}
LoginRegistries == {"mirror.local:443"}
Folders == {"dir"}
KubeVersions == {"1.27"}

\* values payloads handed to Template; "func" stands for a payload holding
\* a value that has no YAML form
ValuesPayloads == {"null", "map", "func"}

\* characters of the text returned by "helm list -q"
OutChars == {"a", "\n"}

RECURSIVE SeqsUpTo(_, _)
SeqsUpTo(S, n) ==
    IF n = 0 THEN {<<>>}
    ELSE LET shorter == SeqsUpTo(S, n - 1)
         IN  shorter \cup {Append(s, x) : s \in shorter, x \in S}

Outputs == SeqsUpTo(OutChars, MaxOut)

NilErr == <<>>
ProcErrs == {<<"exit", "status", "1">>}

----------------------------------------------------------------------------
(* Registry mirror *)

NilMirror == [isNil |-> TRUE, from |-> "", to |-> ""]
Mirrors == {[isNil |-> FALSE, from |-> "oci://public.ecr.aws", to |-> "oci://mirror.local:443"]}

\* (*RegistryMirror).ReplaceRegistry: a nil mirror leaves the reference
\* alone, a mirror replaces the registry it mirrors by its own endpoint
ReplaceRegistry(mirror, originalURL) ==
    IF mirror.isNil THEN originalURL
    ELSE IF \E p \in Paths : originalURL = mirror.from \o p
         THEN LET p == CHOOSE q \in Paths : originalURL = mirror.from \o q
              IN  mirror.to \o p
         ELSE originalURL

----------------------------------------------------------------------------
(* Helm, HelmOpt, NewHelm *)

\* the maps given to WithEnv: one that adds a variable and overwrites the default
EnvMaps == {[k \in {"HELM_EXPERIMENTAL_OCI", "KUBECONFIG"} |->
                IF k = "KUBECONFIG" THEN "kc" ELSE "0"]}
NoEnv == [k \in {} |-> ""]

WithRegistryMirror(mirror) == [kind |-> "WithRegistryMirror", mirror |-> mirror, env |-> NoEnv]
WithInsecure == [kind |-> "WithInsecure", mirror |-> NilMirror, env |-> NoEnv]
WithEnv(env) == [kind |-> "WithEnv", mirror |-> NilMirror, env |-> env]

HelmOpts ==
    {WithInsecure}
        \cup {WithRegistryMirror(m) : m \in Mirrors \cup {NilMirror}}
        \cup {WithEnv(e) : e \in EnvMaps}

\* the body of a HelmOpt, applied to the instance
ApplyOpt(hh, o) ==
    CASE o.kind = "WithRegistryMirror" -> [hh EXCEPT !.registryMirror = o.mirror]
      [] o.kind = "WithInsecure" -> [hh EXCEPT !.insecure = TRUE]
      [] o.kind = "WithEnv" ->
            [hh EXCEPT !.env = [k \in DOMAIN hh.env \cup DOMAIN o.env |->
                                    IF k \in DOMAIN o.env THEN o.env[k] ELSE hh.env[k]]]

RECURSIVE ApplyOpts(_, _)
ApplyOpts(hh, opts) ==
    IF opts = <<>> THEN hh ELSE ApplyOpts(ApplyOpt(hh, Head(opts)), Tail(opts))

DefaultHelm ==
    [registryMirror |-> NilMirror,
     env |-> [k \in {"HELM_EXPERIMENTAL_OCI"} |-> "1"],
     insecure |-> FALSE]

NewHelm(opts) == ApplyOpts(DefaultHelm, opts)

OptLists == SeqsUpTo(HelmOpts, MaxOpts)

HasInsecureOpt(opts) == \E i \in 1..Len(opts) : opts[i].kind = "WithInsecure"

----------------------------------------------------------------------------
(* Helpers of the operations *)

\* the flag of "helm registry login" appended in place of the constant
addInsecureFlagWrongToken(hh, params) ==
    IF hh.insecure THEN Append(params, "--insecure") ELSE params

\* the flag appended without looking at the instance
addInsecureFlagAlways(hh, params) == Append(params, insecureSkipVerifyFlag)

addInsecureFlagIfProvided(hh, params) ==
    IF hh.insecure THEN Append(params, insecureSkipVerifyFlag) ELSE params

\* the reference passed on without the mirror
urlNotRewritten(hh, originalURL) == originalURL

url(hh, originalURL) == ReplaceRegistry(hh.registryMirror, originalURL)

RECURSIVE GetHelmValueArgs(_)
GetHelmValueArgs(values) ==
    IF values = <<>> THEN <<>>
    ELSE <<"--set", Head(values)>> \o GetHelmValueArgs(Tail(values))

\* yaml.Marshal: the YAML text of the payload, or an error
Marshal(values) ==
    CASE values = "null" -> [yaml |-> "null\n", err |-> NilErr]
      [] values = "map" -> [yaml |-> "a: 1\n", err |-> NilErr]
      [] values = "func" -> [yaml |-> "", err |-> <<"json:", "unsupported", "type">>]

\* strings.FieldsFunc(s, c == '\n'), scanning s from position i with the
\* start of the current field in start (0 when outside a field)
RECURSIVE FieldsFrom(_, _, _)
FieldsFrom(s, i, start) ==
    IF i > Len(s)
    THEN IF start > 0 THEN <<SubSeq(s, start, Len(s))>> ELSE <<>>
    ELSE IF s[i] = "\n"
         THEN IF start > 0
              THEN <<SubSeq(s, start, i - 1)>> \o FieldsFrom(s, i + 1, 0)
              ELSE FieldsFrom(s, i + 1, 0)
         ELSE FieldsFrom(s, i + 1, IF start > 0 THEN start ELSE i)

\* strings.Split(s, "\n"): the empty segments kept
RECURSIVE SplitFrom(_, _, _)
SplitFrom(s, i, start) ==
    IF i > Len(s) THEN <<SubSeq(s, start, Len(s))>>
    ELSE IF s[i] = "\n"
         THEN <<SubSeq(s, start, i - 1)>> \o SplitFrom(s, i + 1, i + 1)
         ELSE SplitFrom(s, i + 1, start)

FieldsFuncKeepingEmpty(s) == SplitFrom(s, 1, 1)

FieldsFunc(s) == FieldsFrom(s, 1, 0)

----------------------------------------------------------------------------
(* The external command runner *)

NoStdIn == [set |-> FALSE, data |-> ""]
StdIn(data) == [set |-> TRUE, data |-> data]

\* what Run() returns: the captured output and the error
RunOutcomes(outs) ==
    {[out |-> o, err |-> NilErr] : o \in outs}
        \cup {[out |-> <<>>, err |-> e] : e \in ProcErrs}

ShortOutputs == {<<"a">>}

NoValue == [isNil |-> TRUE, v |-> <<>>]
Value(v) == [isNil |-> FALSE, v |-> v]

\* the record of one operation: its inputs, the invocation it made (if
\* any) and what it returned
Ran(op, in, params, stdin, hh, run, val, err) ==
    [op |-> op, in |-> in, invoked |-> TRUE, args |-> params, stdin |-> stdin,
     env |-> hh.env, run |-> run, val |-> val, err |-> err]

NotRan(op, in, err) ==
    [op |-> op, in |-> in, invoked |-> FALSE, args |-> <<>>, stdin |-> NoStdIn,
     env |-> NoEnv, run |-> [out |-> <<>>, err |-> NilErr], val |-> NoValue, err |-> err]

Idle == NotRan("none", [none |-> TRUE], NilErr)

----------------------------------------------------------------------------
(* The argument list of each operation *)

TemplateParams(hh, ociURI, version, namespace, kubeVersion) ==
    addInsecureFlagIfProvided(hh,
        <<"template", url(hh, ociURI), "--version", version,
          "--namespace", namespace, "--kube-version", kubeVersion>>)
        \o <<"-f", "-">>

PullChartParams(hh, ociURI, version) ==
    addInsecureFlagIfProvided(hh, <<"pull", url(hh, ociURI), "--version", version>>)

ShowValuesParams(hh, ociURI, version) ==
    <<"show", "values", url(hh, ociURI), "--version", version>>

PushChartParams(hh, chart, registry) ==
    addInsecureFlagIfProvided(hh, <<"push", chart, registry>>)

\* the password handed over as an argument
RegistryLoginParamsPasswordArg(hh, registry, username, password) ==
    LET params == <<"registry", "login", registry, "--username", username, "--password", password>>
    IN  IF hh.insecure THEN Append(params, "--insecure") ELSE params

RegistryLoginParams(hh, registry, username, password) ==
    LET params == <<"registry", "login", registry, "--username", username, "--password-stdin">>
    IN  IF hh.insecure THEN Append(params, "--insecure") ELSE params

SaveChartParams(hh, ociURI, version, folder) ==
    addInsecureFlagIfProvided(hh,
        <<"pull", url(hh, ociURI), "--version", version, "--destination", folder>>)

\* a plain install
InstallChartFromNameParamsPlainInstall(hh, ociURI, kubeConfig, name, version) ==
    addInsecureFlagIfProvided(hh,
        <<"install", name, ociURI, "--version", version, "--kubeconfig", kubeConfig>>)

InstallChartFromNameParams(hh, ociURI, kubeConfig, name, version) ==
    addInsecureFlagIfProvided(hh,
        <<"upgrade", "--install", name, ociURI, "--version", version,
          "--kubeconfig", kubeConfig>>)

InstallChartParams(hh, chart, ociURI, version, kubeconfigFilePath, namespace, valueFilePath, skipCRDs, values) ==
    LET p0 == <<"upgrade", "--install", chart, ociURI, "--version", version>>
        p1 == IF skipCRDs THEN Append(p0, "--skip-crds") ELSE p0
        p2 == p1 \o GetHelmValueArgs(values)
        p3 == IF kubeconfigFilePath # "" THEN p2 \o <<"--kubeconfig", kubeconfigFilePath>> ELSE p2
        p4 == IF Len(namespace) > 0 THEN p3 \o <<"--create-namespace", "--namespace", namespace>> ELSE p3
        p5 == IF valueFilePath # "" THEN p4 \o <<"-f", valueFilePath>> ELSE p4
    IN  addInsecureFlagIfProvided(hh, p5)

InstallChartWithValuesFileParams(hh, chart, ociURI, version, kubeconfigFilePath, valuesFilePath) ==
    addInsecureFlagIfProvided(hh,
        <<"upgrade", "--install", chart, ociURI, "--version", version,
          "--values", valuesFilePath, "--kubeconfig", kubeconfigFilePath, "--wait">>)

DeleteParams(hh, kubeconfigFilePath, installName, namespace) ==
    LET p0 == <<"delete", installName, "--kubeconfig", kubeconfigFilePath>>
        p1 == IF namespace # "" THEN p0 \o <<"--namespace", namespace>> ELSE p0
    IN  addInsecureFlagIfProvided(hh, p1)

\* the cause replaced by the message
DeleteErrDroppingCause(err) == <<"deleting", "helm", "installation">>

DeleteErr(err) == <<"deleting", "helm", "installation">> \o err

TemplateErr(err) ==
    <<"failed", "marshalling", "values", "for", "helm", "template:">> \o err

ListChartsParams(hh, kubeconfigFilePath) ==
    <<"list", "-q", "--kubeconfig", kubeconfigFilePath>>

\* the argument list before the options are applied
UpgradeChartWithValuesFileBase(chart, ociURI, version, kubeconfigFilePath, valuesFilePath) ==
    <<"upgrade", chart, ociURI, "--version", version, "--values", valuesFilePath,
      "--kubeconfig", kubeconfigFilePath, "--wait">>

\* the options left unapplied
UpgradeReceiverUnchanged(hh, opts) == hh

\* the instance the command of UpgradeChartWithValuesFile is built on
UpgradeReceiver(hh, opts) == ApplyOpts(hh, opts)

----------------------------------------------------------------------------
(* The operations, one action each *)

IdleCaller ==
    [pc |-> "idle", op |-> "none", opts |-> <<>>, next |-> 1,
     startInsecure |-> FALSE, params |-> <<>>, args |-> <<>>]

\* what every operation leaves behind: its record, and whether it repeats
\* the operation before it with the same inputs
Returns(rec) ==
    /\ last' = rec
    /\ repeated' = (last.op = rec.op /\ last.in = rec.in)
    /\ UNCHANGED callers

\* the marshalling error ignored
TemplateRecordIgnoringMarshalError(hh, in, run) ==
    Ran("Template", in,
        TemplateParams(hh, in.ociURI, in.version, in.namespace, in.kubeVersion),
        StdIn(Marshal(in.values).yaml), hh, run,
        IF run.err # NilErr THEN NoValue ELSE Value(run.out),
        run.err)

\* Template after the inputs are fixed: the record it leaves behind
TemplateRecord(hh, in, run) ==
    LET m == Marshal(in.values)
    IN  IF m.err # NilErr
        THEN NotRan("Template", in, TemplateErr(m.err))
        ELSE Ran("Template", in,
                 TemplateParams(hh, in.ociURI, in.version, in.namespace, in.kubeVersion),
                 StdIn(m.yaml), hh, run,
                 IF run.err # NilErr THEN NoValue ELSE Value(run.out),
                 run.err)

Template ==
    \E ociURI \in URIs, version \in Versions, namespace \in Namespaces,
       values \in ValuesPayloads, kubeVersion \in KubeVersions,
       run \in RunOutcomes(ShortOutputs) :
        /\ Returns(TemplateRecord(h,
                       [ociURI |-> ociURI, version |-> version, namespace |-> namespace,
                        values |-> values, kubeVersion |-> kubeVersion], run))
        /\ UNCHANGED <<h, constructedInsecure, insecureOptApplied>>

PullChart ==
    \E ociURI \in URIs, version \in Versions, run \in RunOutcomes(ShortOutputs) :
        /\ Returns(Ran("PullChart", [ociURI |-> ociURI, version |-> version],
                       PullChartParams(h, ociURI, version), NoStdIn, h, run,
                       NoValue, run.err))
        /\ UNCHANGED <<h, constructedInsecure, insecureOptApplied>>

ShowValues ==
    \E ociURI \in URIs, version \in Versions, run \in RunOutcomes(ShortOutputs) :
        /\ Returns(Ran("ShowValues", [ociURI |-> ociURI, version |-> version],
                       ShowValuesParams(h, ociURI, version), NoStdIn, h, run,
                       Value(run.out), run.err))
        /\ UNCHANGED <<h, constructedInsecure, insecureOptApplied>>

PushChart ==
    \E chart \in Charts, registry \in LoginRegistries, run \in RunOutcomes(ShortOutputs) :
        /\ Returns(Ran("PushChart", [chart |-> chart, registry |-> registry],
                       PushChartParams(h, chart, registry), NoStdIn, h, run,
                       NoValue, run.err))
        /\ UNCHANGED <<h, constructedInsecure, insecureOptApplied>>

RegistryLogin ==
    \E registry \in LoginRegistries, username \in Usernames, password \in Passwords,
       run \in RunOutcomes(ShortOutputs) :
        /\ Returns(Ran("RegistryLogin",
                       [registry |-> registry, username |-> username, password |-> password],
                       RegistryLoginParams(h, registry, username, password),
                       StdIn(password), h, run, NoValue, run.err))
        /\ UNCHANGED <<h, constructedInsecure, insecureOptApplied>>

SaveChart ==
    \E ociURI \in URIs, version \in Versions, folder \in Folders,
       run \in RunOutcomes(ShortOutputs) :
        /\ Returns(Ran("SaveChart",
                       [ociURI |-> ociURI, version |-> version, folder |-> folder],
                       SaveChartParams(h, ociURI, version, folder), NoStdIn, h, run,
                       NoValue, run.err))
        /\ UNCHANGED <<h, constructedInsecure, insecureOptApplied>>

InstallChartFromName ==
    \E ociURI \in URIs, kubeConfig \in KubeConfigPaths, name \in Charts, version \in Versions,
       run \in RunOutcomes(ShortOutputs) :
        /\ Returns(Ran("InstallChartFromName",
                       [ociURI |-> ociURI, kubeConfig |-> kubeConfig, name |-> name,
                        version |-> version],
                       InstallChartFromNameParams(h, ociURI, kubeConfig, name, version),
                       NoStdIn, h, run, NoValue, run.err))
        /\ UNCHANGED <<h, constructedInsecure, insecureOptApplied>>

InstallChart ==
    \E chart \in Charts, ociURI \in URIs, version \in Versions,
       kubeconfigFilePath \in KubeConfigs, namespace \in Namespaces,
       valueFilePath \in ValueFiles, skipCRDs \in BOOLEAN,
       values \in SeqsUpTo(SetValues, MaxValues), run \in RunOutcomes(ShortOutputs) :
        /\ Returns(Ran("InstallChart",
                       [chart |-> chart, ociURI |-> ociURI, version |-> version,
                        kubeconfigFilePath |-> kubeconfigFilePath, namespace |-> namespace,
                        valueFilePath |-> valueFilePath, skipCRDs |-> skipCRDs,
                        values |-> values],
                       InstallChartParams(h, chart, ociURI, version, kubeconfigFilePath,
                                          namespace, valueFilePath, skipCRDs, values),
                       NoStdIn, h, run, NoValue, run.err))
        /\ UNCHANGED <<h, constructedInsecure, insecureOptApplied>>

InstallChartWithValuesFile ==
    \E chart \in Charts, ociURI \in URIs, version \in Versions,
       kubeconfigFilePath \in KubeConfigPaths, valuesFilePath \in ValueFilePaths,
       run \in RunOutcomes(ShortOutputs) :
        /\ Returns(Ran("InstallChartWithValuesFile",
                       [chart |-> chart, ociURI |-> ociURI, version |-> version,
                        kubeconfigFilePath |-> kubeconfigFilePath,
                        valuesFilePath |-> valuesFilePath],
                       InstallChartWithValuesFileParams(h, chart, ociURI, version,
                                                        kubeconfigFilePath, valuesFilePath),
                       NoStdIn, h, run, NoValue, run.err))
        /\ UNCHANGED <<h, constructedInsecure, insecureOptApplied>>

Delete ==
    \E kubeconfigFilePath \in KubeConfigPaths, installName \in Charts, namespace \in Namespaces,
       run \in RunOutcomes(ShortOutputs) :
        /\ Returns(Ran("Delete",
                       [kubeconfigFilePath |-> kubeconfigFilePath,
                        installName |-> installName, namespace |-> namespace],
                       DeleteParams(h, kubeconfigFilePath, installName, namespace),
                       NoStdIn, h, run, NoValue,
                       IF run.err # NilErr THEN DeleteErr(run.err) ELSE NilErr))
        /\ UNCHANGED <<h, constructedInsecure, insecureOptApplied>>

ListCharts ==
    \E kubeconfigFilePath \in KubeConfigPaths, run \in RunOutcomes(Outputs) :
        /\ Returns(Ran("ListCharts", [kubeconfigFilePath |-> kubeconfigFilePath],
                       ListChartsParams(h, kubeconfigFilePath), NoStdIn, h, run,
                       IF run.err # NilErr THEN NoValue ELSE Value(FieldsFunc(run.out)),
                       run.err))
        /\ UNCHANGED <<h, constructedInsecure, insecureOptApplied>>

UpgradeChartWithValuesFile ==
    \E chart \in Charts, ociURI \in URIs, version \in Versions,
       kubeconfigFilePath \in KubeConfigPaths, valuesFilePath \in ValueFilePaths,
       opts \in OptLists, run \in RunOutcomes(ShortOutputs) :
        LET hh == UpgradeReceiver(h, opts)
        IN  /\ h' = hh
            /\ insecureOptApplied' = (insecureOptApplied \/ HasInsecureOpt(opts))
            /\ Returns(Ran("UpgradeChartWithValuesFile",
                           [chart |-> chart, ociURI |-> ociURI, version |-> version,
                            kubeconfigFilePath |-> kubeconfigFilePath,
                            valuesFilePath |-> valuesFilePath, opts |-> opts],
                           addInsecureFlagIfProvided(hh,
                               UpgradeChartWithValuesFileBase(chart, ociURI, version,
                                   kubeconfigFilePath, valuesFilePath)),
                           NoStdIn, hh, run, NoValue, run.err))
            /\ UNCHANGED constructedInsecure

----------------------------------------------------------------------------
(* One caller at a time: every operation runs to completion *)

Init ==
    \E opts \in OptLists :
        /\ h = NewHelm(opts)
        /\ constructedInsecure = HasInsecureOpt(opts)
        /\ insecureOptApplied = FALSE
        /\ last = Idle
        /\ repeated = FALSE
        /\ callers = [c \in 1..NCallers |-> IdleCaller]

Next ==
    \/ Template
    \/ PullChart
    \/ ShowValues
    \/ PushChart
    \/ RegistryLogin
    \/ SaveChart
    \/ InstallChartFromName
    \/ InstallChart
    \/ InstallChartWithValuesFile
    \/ Delete
    \/ ListCharts
    \/ UpgradeChartWithValuesFile

Spec == Init /\ [][Next]_vars

----------------------------------------------------------------------------
(* Vocabulary of the properties *)

Contains(seq, x) == \E i \in 1..Len(seq) : seq[i] = x

LastIs(seq, x) == Len(seq) > 0 /\ seq[Len(seq)] = x

IsPrefix(p, seq) == Len(p) <= Len(seq) /\ SubSeq(seq, 1, Len(p)) = p

IsSuffix(p, seq) ==
    Len(p) <= Len(seq) /\ SubSeq(seq, Len(seq) - Len(p) + 1, Len(seq)) = p

\* the operations that rewrite their chart reference through the mirror
RewritingOps == {"Template", "PullChart", "ShowValues", "SaveChart"}
\* the operations that pass their chart reference on as given
VerbatimOps == {"InstallChartFromName", "InstallChart", "UpgradeChartWithValuesFile"}
\* the operations the specification lists as rewriting
ListedRefOps ==
    {"Template", "PullChart", "ShowValues", "SaveChart", "InstallChartFromName",
     "InstallChart", "UpgradeChartWithValuesFile"}

\* the position of the chart reference in the argument list of an operation
RefIndex(op) ==
    CASE op \in {"Template", "PullChart", "SaveChart"} -> 2
      [] op \in {"ShowValues", "UpgradeChartWithValuesFile"} -> 3
      [] OTHER -> 4

RefToken(rec) == rec.args[RefIndex(rec.op)]

\* the operations whose argument list ends with the flag in insecure mode
FlagLastOps ==
    {"PullChart", "PushChart", "SaveChart", "InstallChartFromName", "InstallChart",
     "InstallChartWithValuesFile", "Delete", "UpgradeChartWithValuesFile"}
AllOps == FlagLastOps \cup {"Template", "ShowValues", "RegistryLogin", "ListCharts"}

----------------------------------------------------------------------------
(* C1 *)

----------------------------------------------------------------------------
(* C2 *)

----------------------------------------------------------------------------
(* C3 *)

\* C3 as stated: an instance constructed without the insecure option never
\* puts the flag in an argument list, whatever operations ran on it.
C3_AsStated ==
    ~constructedInsecure => ~Contains(last.args, insecureSkipVerifyFlag)

\* C3 (amended): an instance constructed without the insecure option never
\* puts the flag in an argument list as long as no call of
\* UpgradeChartWithValuesFile on it was given the insecure option.
C3_NoFlagUntilInsecureOptionGiven ==
    (~constructedInsecure /\ ~insecureOptApplied)
        => ~Contains(last.args, insecureSkipVerifyFlag)

C3_Witness ==
    /\ ~constructedInsecure
    /\ ~insecureOptApplied
    /\ last.invoked
    /\ last.op = "UpgradeChartWithValuesFile"
    /\ last.in.opts # <<>>
    /\ repeated
    /\ ~Contains(last.args, insecureSkipVerifyFlag)

----------------------------------------------------------------------------
(* C4 *)

\* C4: the argument list of RegistryLogin is the same whatever the password
\* is, has no token equal to the password unless the registry or the
\* username is that same string, and the password is the standard input of
\* the invocation.
C4_PasswordOnlyOnStdin ==
    (last.op = "RegistryLogin") =>
        /\ last.invoked
        /\ last.stdin = [set |-> TRUE, data |-> last.in.password]
        /\ \A p \in Passwords :
              last.args = RegistryLoginParams(h, last.in.registry, last.in.username, p)
        /\ last.in.password \notin {last.in.registry, last.in.username}
              => ~Contains(last.args, last.in.password)

C4_Witness ==
    /\ last.op = "RegistryLogin"
    /\ last.in.password = "s3cret"
    /\ last.stdin.data = "s3cret"
    /\ ~Contains(last.args, "s3cret")

----------------------------------------------------------------------------
(* C5 *)

\* the payloads yaml.Marshal rejects
Unserializable == {v \in ValuesPayloads : Marshal(v).err # NilErr}

\* C5: Template given a payload that cannot be serialized returns the
\* marshalling error without invoking helm; when Template invokes helm the
\* payload was serialized and its YAML text is the standard input.
C5_NoInvocationOnMarshalError ==
    (last.op = "Template") =>
        /\ last.in.values \in Unserializable =>
              /\ ~last.invoked
              /\ last.args = <<>>
              /\ IsPrefix(<<"failed", "marshalling", "values">>, last.err)
              /\ IsSuffix(Marshal(last.in.values).err, last.err)
              /\ last.val.isNil
        /\ last.invoked =>
              /\ last.in.values \notin Unserializable
              /\ last.stdin = [set |-> TRUE, data |-> Marshal(last.in.values).yaml]
        /\ last.in.values \notin Unserializable => last.invoked

C5_Witness ==
    /\ last.op = "Template"
    /\ last.in.values = "func"
    /\ ~last.invoked
    /\ last.err # NilErr

----------------------------------------------------------------------------
(* C6 *)

\* C6: when helm fails with error M, Delete returns an error made of the
\* words "deleting helm installation" followed by M; when helm succeeds
\* Delete returns no error; every other operation returns the error of
\* helm as it is.
C6_DeleteWrapsTheCause ==
    last.invoked =>
        /\ (last.op = "Delete" /\ last.run.err # NilErr) =>
              /\ IsPrefix(<<"deleting", "helm", "installation">>, last.err)
              /\ IsSuffix(last.run.err, last.err)
              /\ Len(last.err) = 3 + Len(last.run.err)
        /\ (last.op = "Delete" /\ last.run.err = NilErr) => last.err = NilErr
        /\ last.op # "Delete" => last.err = last.run.err

C6_Witness ==
    /\ last.op = "Delete"
    /\ last.invoked
    /\ last.run.err = <<"exit", "status", "1">>
    /\ last.err = <<"deleting", "helm", "installation", "exit", "status", "1">>

----------------------------------------------------------------------------
(* C7 *)

\* the text without the newlines that start it or follow another newline
RECURSIVE Squeeze(_, _)
Squeeze(s, i) ==
    IF i > Len(s) THEN <<>>
    ELSE IF s[i] = "\n" /\ (i = 1 \/ s[i - 1] = "\n")
         THEN Squeeze(s, i + 1)
         ELSE <<s[i]>> \o Squeeze(s, i + 1)

\* ... and without the newline that ends it
Trimmed(s) ==
    LET q == Squeeze(s, 1)
    IN  IF LastIs(q, "\n") THEN SubSeq(q, 1, Len(q) - 1) ELSE q

RECURSIVE JoinLines(_)
JoinLines(fields) ==
    IF fields = <<>> THEN <<>>
    ELSE IF Len(fields) = 1 THEN fields[1]
         ELSE fields[1] \o <<"\n">> \o JoinLines(Tail(fields))

\* C7: on success ListCharts returns the non-empty segments between the
\* newlines of the output, in order: no segment is empty or holds a
\* newline, and joined by single newlines they are the output with its
\* leading, trailing and repeated newlines removed; on failure it returns
\* the error of helm and no list.
C7_ListChartsNonEmptyLines ==
    (last.op = "ListCharts") =>
        /\ last.run.err = NilErr =>
              /\ ~last.val.isNil
              /\ last.err = NilErr
              /\ \A i \in 1..Len(last.val.v) :
                    last.val.v[i] # <<>> /\ ~Contains(last.val.v[i], "\n")
              /\ JoinLines(last.val.v) = Trimmed(last.run.out)
        /\ last.run.err # NilErr =>
              /\ last.val = [isNil |-> TRUE, v |-> <<>>]
              /\ last.err = last.run.err

C7_Witness ==
    /\ last.op = "ListCharts"
    /\ last.run.err = NilErr
    /\ last.run.out = <<"a", "a", "\n", "\n", "a">>
    /\ last.val.v = << <<"a", "a">>, <<"a">> >>

----------------------------------------------------------------------------
(* C8 *)

InstallOps == {"InstallChartFromName", "InstallChart"}

\* C8: every InstallChartFromName and InstallChart invocation starts with
\* "upgrade" "--install", and one that repeats the operation before it with
\* the same inputs has the same argument list as that one.
C8_InstallIsUpgradeInstall ==
    [][(last'.op \in InstallOps) =>
            /\ last'.invoked
            /\ IsPrefix(<<"upgrade", "--install">>, last'.args)
            /\ last'.args[1] # "install"
            /\ (last.op = last'.op /\ last.in = last'.in) => last'.args = last.args
      ]_vars

C8_Witness ==
    /\ repeated
    /\ last.op = "InstallChart"
    /\ ~h.insecure
    /\ last.args = <<"upgrade", "--install", "r", "oci://other.io/eks-anywhere/chart",
                     "--version", "1.0", "--create-namespace", "--namespace", "ns">>

----------------------------------------------------------------------------
(* C9 *)

----------------------------------------------------------------------------
(* Several callers on one instance: every read and write of the instance  *)
(* is a step of its own                                                    *)

Callers == 1..NCallers

\* the chart reference of the concurrent callers
ConcURIs == {"oci://public.ecr.aws/eks-anywhere/chart"}

\* the option lists given to UpgradeChartWithValuesFile by concurrent callers
ConcOptLists == {<<>>, <<WithInsecure>>}

\* PullChart, up to the call of addInsecureFlagIfProvided
CallPullChart(c) ==
    \E ociURI \in ConcURIs, version \in Versions :
        /\ callers[c].pc = "idle"
        /\ callers' = [callers EXCEPT ![c] =
               [pc |-> "built", op |-> "PullChart", opts |-> <<>>, next |-> 1,
                startInsecure |-> h.insecure,
                params |-> <<"pull", url(h, ociURI), "--version", version>>,
                args |-> <<>>]]
        /\ UNCHANGED <<h, constructedInsecure, insecureOptApplied, last, repeated>>

\* UpgradeChartWithValuesFile, up to the loop over its options
CallUpgradeChartWithValuesFile(c) ==
    \E chart \in Charts, ociURI \in ConcURIs, version \in Versions,
       kubeconfigFilePath \in KubeConfigPaths, valuesFilePath \in ValueFilePaths,
       opts \in ConcOptLists :
        /\ callers[c].pc = "idle"
        /\ callers' = [callers EXCEPT ![c] =
               [pc |-> "built", op |-> "UpgradeChartWithValuesFile", opts |-> opts,
                next |-> 1, startInsecure |-> h.insecure,
                params |-> UpgradeChartWithValuesFileBase(chart, ociURI, version,
                               kubeconfigFilePath, valuesFilePath),
                args |-> <<>>]]
        /\ UNCHANGED <<h, constructedInsecure, insecureOptApplied, last, repeated>>

\* one round of the loop over the options: the option writes the instance
ApplyNextOpt(c) ==
    /\ callers[c].pc = "built"
    /\ callers[c].next <= Len(callers[c].opts)
    /\ h' = ApplyOpt(h, callers[c].opts[callers[c].next])
    /\ insecureOptApplied' =
           (insecureOptApplied \/ callers[c].opts[callers[c].next].kind = "WithInsecure")
    /\ callers' = [callers EXCEPT ![c].next = @ + 1]
    /\ UNCHANGED <<constructedInsecure, last, repeated>>

\* the call of addInsecureFlagIfProvided: the flag of the instance is read
AddInsecureFlag(c) ==
    /\ callers[c].pc = "built"
    /\ callers[c].next > Len(callers[c].opts)
    /\ callers' = [callers EXCEPT ![c].pc = "flagged",
                                   ![c].params = addInsecureFlagIfProvided(h, @)]
    /\ UNCHANGED <<h, constructedInsecure, insecureOptApplied, last, repeated>>

\* the command runs with the argument list built so far
RunCommand(c) ==
    /\ callers[c].pc = "flagged"
    /\ callers' = [callers EXCEPT ![c].pc = "done", ![c].args = callers[c].params]
    /\ UNCHANGED <<h, constructedInsecure, insecureOptApplied, last, repeated>>

NextConc ==
    \/ \E c \in Callers : CallPullChart(c)
    \/ \E c \in Callers : CallUpgradeChartWithValuesFile(c)
    \/ \E c \in Callers : ApplyNextOpt(c)
    \/ \E c \in Callers : AddInsecureFlag(c)
    \/ \E c \in Callers : RunCommand(c)

SpecConc == Init /\ [][NextConc]_vars

----------------------------------------------------------------------------
(* C10 *)

\* C10: an invocation of a caller that started on an insecure instance
\* ends with the flag; one that started on an instance that was not
\* insecure ends with the flag only if an UpgradeChartWithValuesFile call
\* has applied the insecure option by then, so that among callers given no
\* options every invocation is the one the instance at their start
\* determines.  (With such a call running, both outcomes are reachable:
\* C10_Witness.)
C10_FlagFollowsStartUnlessOptionApplied ==
    \A c \in Callers :
        callers[c].pc = "done" =>
            /\ callers[c].startInsecure => LastIs(callers[c].args, insecureSkipVerifyFlag)
            /\ LastIs(callers[c].args, insecureSkipVerifyFlag) =>
                  (callers[c].startInsecure \/ insecureOptApplied)
            /\ (\A d \in Callers : callers[d].opts = <<>>) =>
                  (LastIs(callers[c].args, insecureSkipVerifyFlag)
                       <=> callers[c].startInsecure)

\* two PullChart calls that both started on an instance that was not
\* insecure, while a third caller applied the insecure option: one
\* invocation carries the flag, the other does not
C10_Witness ==
    \E a, b, u \in Callers :
        /\ callers[u].op = "UpgradeChartWithValuesFile"
        /\ callers[u].opts = <<WithInsecure>>
        /\ callers[u].startInsecure = FALSE
        /\ callers[u].pc # "done"
        /\ callers[a].op = "PullChart" /\ callers[a].pc = "done"
        /\ callers[b].op = "PullChart" /\ callers[b].pc = "done"
        /\ ~callers[a].startInsecure /\ ~callers[b].startInsecure
        /\ LastIs(callers[a].args, insecureSkipVerifyFlag)
        /\ ~LastIs(callers[b].args, insecureSkipVerifyFlag)

\* the statement C10 denies: the flag of an invocation is the flag the
\* instance had when the operation started
C10_DeterminedByStart ==
    \A c \in Callers :
        (callers[c].pc = "done" /\ callers[c].op = "PullChart") =>
            (LastIs(callers[c].args, insecureSkipVerifyFlag) <=> callers[c].startInsecure)

====
